---- MODULE Spec2Model ----
(***************************************************************************)
(* Model of covizu/beadplot.py: get_parents, collapse_polytomies,          *)
(* annotate_tree and serialize_tree, run on a Bio.Phylo tree.              *)
(*                                                                         *)
(* Encoding.                                                               *)
(*  - A clade is a natural number; `clades` is the child list of every     *)
(*    clade (Clade.clades), root is tree.root.                             *)
(*  - A branch length is an integer number of thousandths; the Python      *)
(*    value None is NoneLen.                                               *)
(*  - A Python string is the sequence of its '|'-separated fields          *)
(*    (s.split('|')), so a string is never the empty sequence and '' is    *)
(*    EmptyStr, one empty field.  '|'.join([a, b]) is a \o b and           *)
(*    "'|' in s" is Len(s) > 1.  The Python value None is the empty        *)
(*    sequence NoneName.  Fields are integers whose order stands for the   *)
(*    lexicographic order of the field strings.                            *)
(*  - An exception leaves the program in the state it was raised in and    *)
(*    sets err to the exception's type.                                    *)
(***************************************************************************)
EXTENDS Integers, Sequences, FiniteSets, TLC

VARIABLES
    clades,         \* Clade.clades of every clade: ordered child list
    name,           \* Clade.name
    branch_length,  \* Clade.branch_length
    confidence,     \* Clade.confidence
    labels,         \* Clade.labels, attached by annotate_tree
    minlen,         \* the minlen argument
    label_dict,     \* the label table: tip name -> list of labels
    parents,        \* the local dict `parents` of the running function
    queue,          \* the clades the running loop has still to visit
    pc,             \* position in the program
    run,            \* 1: first call of collapse_polytomies, 2: second call
    err,            \* "none", or the type of the exception raised
    nodes,          \* obj['nodes'] of serialize_tree
    edges,          \* obj['edges'] of serialize_tree
    variant_d,      \* variant_d of serialize_tree
    us_count,       \* us_count of serialize_tree
    clades0,        \* child lists of the input tree
    clades1,        \* child lists returned by the first collapse
    name1           \* names returned by the first collapse

vars == <<clades, name, branch_length, confidence, labels, minlen, label_dict,
          parents, queue, pc, run, err, nodes, edges, variant_d, us_count,
          clades0, clades1, name1>>

----------------------------------------------------------------------------
(* Bounds and encodings *)

MaxNodes == 4

DefaultMinLen == 500

NoneLen == -1

NoneName == << >>

NoneConf == -1

EmptyStr == << 0 >>

root == 1

Range(s) == { s[i] : i \in DOMAIN s }

RECURSIVE SeqOfSet(_)
SeqOfSet(S) ==
    IF S = {} THEN << >>
    ELSE LET m == CHOOSE x \in S : \A y \in S : x <= y
         IN  << m >> \o SeqOfSet(S \ {m})

RECURSIVE Count(_, _)
Count(x, s) ==
    IF s = << >> THEN 0
    ELSE (IF Head(s) = x THEN 1 ELSE 0) + Count(x, Tail(s))

RECURSIVE Concat(_, _)
\* the concatenation of f[s[1]], f[s[2]], ...
Concat(f, s) ==
    IF s = << >> THEN << >> ELSE f[Head(s)] \o Concat(f, Tail(s))

----------------------------------------------------------------------------
(* Bio.Phylo traversals, as beadplot.py calls them *)

RECURSIVE Preorder(_, _)
\* find_clades(order='preorder'): depth first, a clade before its children
Preorder(cl, stack) ==
    IF stack = << >> THEN << >>
    ELSE << Head(stack) >> \o Preorder(cl, cl[Head(stack)] \o Tail(stack))

RECURSIVE LevelOrder(_, _)
\* find_clades(order='level'): breadth first
LevelOrder(cl, fifo) ==
    IF fifo = << >> THEN << >>
    ELSE << Head(fifo) >> \o LevelOrder(cl, Tail(fifo) \o cl[Head(fifo)])

is_terminal(cl, n) == cl[n] = << >>

get_terminals(cl) ==
    SelectSeq(Preorder(cl, << root >>), LAMBDA n : is_terminal(cl, n))

get_nonterminals(cl) ==
    SelectSeq(Preorder(cl, << root >>), LAMBDA n : ~is_terminal(cl, n))

\* parents.update({child: clade}) for every child of every clade in level
\* order: the last clade that lists the child wins
get_parents(cl) ==
    LET order == LevelOrder(cl, << root >>)
        lists(c) == { i \in DOMAIN order : c \in Range(cl[order[i]]) }
        kids  == UNION { Range(cl[order[i]]) : i \in DOMAIN order }
    IN  [ c \in kids |->
            order[CHOOSE i \in lists(c) : \A j \in lists(c) : j <= i] ]

\* list.remove(x): drops the first occurrence of x
RECURSIVE Remove(_, _)
Remove(s, x) ==
    IF s = << >> THEN << >>
    ELSE IF Head(s) = x THEN Tail(s)
    ELSE << Head(s) >> \o Remove(Tail(s), x)

\* dict.update({k: v})
Update(d, k, v) == [ x \in DOMAIN d \cup {k} |-> IF x = k THEN v ELSE d[x] ]

----------------------------------------------------------------------------
(* Pieces of collapse_polytomies *)

\* tip.branch_length > minlen, for a defined length
LongerOrEqual(bl, ml) == bl >= ml
LongerThan(bl, ml) == bl > ml

\* parent.name after a tip or a spliced clade n is folded into p
FoldNameDropped(pn, cn) == IF pn = NoneName THEN cn ELSE pn
FoldName(pn, cn) == IF pn = NoneName THEN cn ELSE pn \o cn

\* the test that makes Pass 2 leave a clade alone
SkipInternal(n) ==
    \/ branch_length[n] = NoneLen
    \/ LongerThan(branch_length[n], minlen)
    \/ n = root

\* parent.clades.extend(node.clades)
ExtendDropped(pc_, nc) == pc_
Extend(pc_, nc) == pc_ \o nc

\* `if node.name:`
Truthy(s) == s # NoneName /\ s # EmptyStr

\* `parents[child] = parent` for every child of the spliced clade
ReparentForgotten(par, kids, parent) == par
Reparent(par, kids, parent) ==
    [ c \in DOMAIN par \cup Range(kids) |->
        IF c \in Range(kids) THEN parent ELSE par[c] ]

----------------------------------------------------------------------------
(* Inputs *)

EmptyDict == [ x \in {} |-> x ]

MinLens == { 0, DefaultMinLen }

\* lengths around the threshold: undefined, zero, at it, just above it
LenChoices(ml) == { NoneLen, 0, ml, ml + 1 }

\* The two labels 'name|accession|region|country|date' of tip t.  For t = 1
\* they are A|acc1|r|c|2021-01-01 and B|acc2|r|c|2021-02-01; the country of
\* an even tip sorts after the country of an odd one.
Lab(t, k) ==
    << 2 * (t - 1) + k, 2 * (t - 1) + k, 1, 1 + ((t + 1) % 2),
       IF k = 1 THEN 20210101 ELSE 20210201 >>

TableEntry(t, swap) ==
    IF swap THEN << Lab(t, 1), Lab(t, 2) >> ELSE << Lab(t, 2), Lab(t, 1) >>

\* child lists of the tree in which clade i hangs under par[i]
CladesOf(n, par) == [ p \in 1..n |-> SeqOfSet({ i \in 2..n : par[i] = p }) ]

\* ((A:0,B:0.6):0.3,(C:0.2,D:0.1):0.05) with A, B, C, D = 4, 5, 6, 7
ExamplePar == [ i \in 2..7 |-> IF i <= 3 THEN 1 ELSE IF i <= 5 THEN 2 ELSE 3 ]
ExampleLen == << NoneLen, 300, 50, 0, 600, 200, 100 >>

InitWith(n, par, len, ml, swap) ==
    LET cl == CladesOf(n, par) IN
    /\ clades = cl
    /\ clades0 = cl
    /\ name = [ i \in 1..n |-> IF cl[i] = << >> THEN << i >> ELSE NoneName ]
    /\ branch_length = len
    /\ confidence = [ i \in 1..n |-> NoneConf ]
    /\ labels = [ i \in 1..n |-> << >> ]
    /\ minlen = ml
    /\ label_dict = [ t \in { i \in 1..n : cl[i] = << >> } |-> TableEntry(t, swap) ]
    /\ parents = EmptyDict
    /\ queue = << >>
    /\ pc = "annotate_tree"
    /\ run = 1
    /\ err = "none"
    /\ nodes = EmptyDict
    /\ edges = << >>
    /\ variant_d = EmptyDict
    /\ us_count = 0
    /\ clades1 = cl
    /\ name1 = [ i \in 1..n |-> NoneName ]

Init ==
    \E swap \in BOOLEAN :
        \/ \E n \in 1..MaxNodes, ml \in MinLens :
             \E par \in [ 2..n -> 1..n ], len \in [ 1..n -> LenChoices(ml) ] :
                /\ \A i \in 2..n : par[i] < i
                /\ InitWith(n, par, len, ml, swap)
        \/ InitWith(7, ExamplePar, ExampleLen, DefaultMinLen, swap)

----------------------------------------------------------------------------
(* collapse_polytomies *)

Running(p) == pc = p /\ err = "none"

Raise(e) ==
    /\ err' = e
    /\ UNCHANGED << clades, name, branch_length, confidence, labels, minlen,
                    label_dict, parents, queue, pc, run, nodes, edges,
                    variant_d, us_count, clades0, clades1, name1 >>

\* parents = get_parents(tree); the loop over tree.get_terminals() starts
EnterCollapse ==
    /\ parents' = get_parents(clades)
    /\ queue' = get_terminals(clades)
    /\ pc' = "pass1"
    /\ UNCHANGED << clades, name, branch_length, confidence, labels, minlen,
                    label_dict, err, nodes, edges, variant_d, us_count,
                    clades0 >>

\* annotate_tree calls collapse_polytomies
CollapseBegin ==
    /\ Running("annotate_tree")
    /\ EnterCollapse
    /\ UNCHANGED << run, clades1, name1 >>

\* `tip.branch_length > minlen` with an undefined length
TipTypeError ==
    /\ Running("pass1") /\ queue # << >>
    /\ branch_length[Head(queue)] = NoneLen
    /\ Raise("TypeError")

\* a tip longer than minlen: continue
TipRetain ==
    /\ Running("pass1") /\ queue # << >>
    /\ branch_length[Head(queue)] # NoneLen
    /\ LongerThan(branch_length[Head(queue)], minlen)
    /\ queue' = Tail(queue)
    /\ UNCHANGED << clades, name, branch_length, confidence, labels, minlen,
                    label_dict, parents, pc, run, err, nodes, edges,
                    variant_d, us_count, clades0, clades1, name1 >>

\* `parents[tip]` for a tip that has no parent
TipKeyError ==
    /\ Running("pass1") /\ queue # << >>
    /\ branch_length[Head(queue)] # NoneLen
    /\ ~LongerThan(branch_length[Head(queue)], minlen)
    /\ Head(queue) \notin DOMAIN parents
    /\ Raise("KeyError")

\* a tip not longer than minlen: removed, its name folded into the parent's
TipRemove ==
    /\ Running("pass1") /\ queue # << >>
    /\ LET tip == Head(queue) IN
       /\ branch_length[tip] # NoneLen
       /\ ~LongerThan(branch_length[tip], minlen)
       /\ tip \in DOMAIN parents
       /\ LET parent == parents[tip] IN
          IF tip \notin Range(clades[parent])
          THEN Raise("ValueError")
          ELSE /\ clades' = [ clades EXCEPT ![parent] = Remove(@, tip) ]
               /\ IF name[parent] # NoneName /\ name[tip] = NoneName
                  THEN /\ err' = "TypeError"
                       /\ UNCHANGED << name, queue >>
                  ELSE /\ name' = [ name EXCEPT
                                      ![parent] = FoldName(@, name[tip]) ]
                       /\ queue' = Tail(queue)
                       /\ err' = err
               /\ UNCHANGED << branch_length, confidence, labels, minlen,
                               label_dict, parents, pc, run, nodes, edges,
                               variant_d, us_count, clades0, clades1, name1 >>

\* the first loop is over; the loop over tree.get_nonterminals() starts
Pass1Done ==
    /\ Running("pass1") /\ queue = << >>
    /\ queue' = get_nonterminals(clades)
    /\ pc' = "pass2"
    /\ UNCHANGED << clades, name, branch_length, confidence, labels, minlen,
                    label_dict, parents, run, err, nodes, edges, variant_d,
                    us_count, clades0, clades1, name1 >>

\* an internal clade that is the root, long, or of undefined length: continue
NodeSkip ==
    /\ Running("pass2") /\ queue # << >>
    /\ SkipInternal(Head(queue))
    /\ queue' = Tail(queue)
    /\ UNCHANGED << clades, name, branch_length, confidence, labels, minlen,
                    label_dict, parents, pc, run, err, nodes, edges,
                    variant_d, us_count, clades0, clades1, name1 >>

\* a short internal clade is spliced out
NodeSplice ==
    /\ Running("pass2") /\ queue # << >>
    /\ LET node == Head(queue) IN
       /\ ~SkipInternal(node)
       /\ IF node \notin DOMAIN parents
          THEN Raise("KeyError")
          ELSE LET parent == parents[node] IN
               IF node \notin Range(clades[parent])
               THEN Raise("ValueError")
               ELSE /\ clades' = [ clades EXCEPT ![parent] =
                                     Extend(Remove(@, node), clades[node]) ]
                    /\ parents' = Reparent(parents, clades[node], parent)
                    /\ name' = IF Truthy(name[node])
                               THEN [ name EXCEPT
                                        ![parent] = FoldName(@, name[node]) ]
                               ELSE name
                    /\ queue' = Tail(queue)
                    /\ UNCHANGED << branch_length, confidence, labels,
                                    minlen, label_dict, pc, run, err, nodes,
                                    edges, variant_d, us_count, clades0,
                                    clades1, name1 >>

\* return tree
CollapseReturn ==
    /\ Running("pass2") /\ queue = << >>
    /\ pc' = IF run = 1 THEN "collapsed" ELSE "recollapsed"
    /\ clades1' = IF run = 1 THEN clades ELSE clades1
    /\ name1' = IF run = 1 THEN name ELSE name1
    /\ UNCHANGED << clades, name, branch_length, confidence, labels, minlen,
                    label_dict, parents, queue, run, err, nodes, edges,
                    variant_d, us_count, clades0 >>

\* collapse_polytomies is called again on the tree it returned
CollapseAgain ==
    /\ Running("collapsed")
    /\ run' = 2
    /\ EnterCollapse
    /\ UNCHANGED << clades1, name1 >>

----------------------------------------------------------------------------
(* annotate_tree, after the collapse *)

RECURSIVE KnownPrefix(_)
\* the fields of a name up to the first one the label table lacks
KnownPrefix(s) ==
    IF s = << >> \/ Head(s) \notin DOMAIN label_dict THEN << >>
    ELSE << Head(s) >> \o KnownPrefix(Tail(s))

\* labels.extend(label_dict[tn]) for tn in name.split('|')
LabelsOf(nm) == Concat(label_dict, KnownPrefix(nm))

\* the loop over tree.get_terminals() starts
AnnotateBegin ==
    /\ Running("collapsed")
    /\ queue' = get_terminals(clades)
    /\ pc' = "label_tips"
    /\ UNCHANGED << clades, name, branch_length, confidence, labels, minlen,
                    label_dict, parents, run, err, nodes, edges, variant_d,
                    us_count, clades0, clades1, name1 >>

\* one terminal clade gets the labels of the tips merged into it
AnnotateTip ==
    /\ Running("label_tips") /\ queue # << >>
    /\ LET tip == Head(queue) IN
       IF name[tip] = NoneName
       THEN Raise("TypeError")
       ELSE /\ labels' = [ labels EXCEPT ![tip] =
                             IF Len(name[tip]) > 1
                             THEN LabelsOf(name[tip])
                             ELSE IF name[tip][1] \in DOMAIN label_dict
                                  THEN label_dict[name[tip][1]] ELSE @ ]
            /\ IF KnownPrefix(name[tip]) = name[tip]
               THEN queue' = Tail(queue) /\ err' = err
               ELSE queue' = queue /\ err' = "KeyError"
            /\ UNCHANGED << clades, name, branch_length, confidence, minlen,
                            label_dict, parents, pc, run, nodes, edges,
                            variant_d, us_count, clades0, clades1, name1 >>

\* the loop over tree.get_nonterminals() starts
AnnotateTipsDone ==
    /\ Running("label_tips") /\ queue = << >>
    /\ queue' = get_nonterminals(clades)
    /\ pc' = "label_nodes"
    /\ UNCHANGED << clades, name, branch_length, confidence, labels, minlen,
                    label_dict, parents, run, err, nodes, edges, variant_d,
                    us_count, clades0, clades1, name1 >>

\* one internal clade: unsampled (name None) or sampled
AnnotateNode ==
    /\ Running("label_nodes") /\ queue # << >>
    /\ LET node == Head(queue) IN
       /\ name' = IF name[node] = NoneName
                  THEN [ name EXCEPT ![node] = EmptyStr ] ELSE name
       /\ labels' = [ labels EXCEPT ![node] = LabelsOf(name[node]) ]
       /\ IF KnownPrefix(name[node]) = name[node]
          THEN queue' = Tail(queue) /\ err' = err
          ELSE queue' = queue /\ err' = "KeyError"
       /\ UNCHANGED << clades, branch_length, confidence, minlen, label_dict,
                       parents, pc, run, nodes, edges, variant_d, us_count,
                       clades0, clades1, name1 >>

\* return tree
AnnotateReturn ==
    /\ Running("label_nodes") /\ queue = << >>
    /\ pc' = "annotated"
    /\ UNCHANGED << clades, name, branch_length, confidence, labels, minlen,
                    label_dict, parents, queue, run, err, nodes, edges,
                    variant_d, us_count, clades0, clades1, name1 >>

----------------------------------------------------------------------------
(* serialize_tree *)

\* label.split('|')[::-1]
Reverse(s) == [ i \in 1..Len(s) |-> s[Len(s) + 1 - i] ]

RECURSIVE LexLess(_, _)
\* a < b for Python lists
LexLess(a, b) ==
    IF b = << >> THEN FALSE
    ELSE IF a = << >> THEN TRUE
    ELSE IF Head(a) < Head(b) THEN TRUE
    ELSE IF Head(b) < Head(a) THEN FALSE
    ELSE LexLess(Tail(a), Tail(b))

RECURSIVE Insert(_, _)
\* x put into the ascending list s, after the elements not greater than it
Insert(x, s) ==
    IF s = << >> THEN << x >>
    ELSE IF LexLess(x, Head(s)) THEN << x >> \o s
    ELSE << Head(s) >> \o Insert(x, Tail(s))

RECURSIVE SortAsc(_)
SortAsc(s) ==
    IF s = << >> THEN << >>
    ELSE Insert(s[Len(s)], SortAsc(SubSeq(s, 1, Len(s) - 1)))

\* intermed.sort()
SortUnsorted(s) == s
Sort(s) == SortAsc(s)

\* intermed of a clade with the labels ls
Intermed(ls) == Sort([ i \in 1..Len(ls) |-> Reverse(ls[i]) ])

\* intermed[0][3], or 'unsampled'+str(us_count)
Variant(ls, count) ==
    IF ls # << >> THEN << "acc", Intermed(ls)[1][4] >>
    ELSE << "unsampled", count >>

\* us_count += 1
NextCountStuck(count) == count
NextCount(count) == count + 1

\* round(x, 2) of a length in thousandths: to the nearest ten, ties to even
Round2(x) ==
    LET q == x \div 10
        r == x % 10
    IN  IF r < 5 THEN 10 * q
        ELSE IF r > 5 THEN 10 * (q + 1)
        ELSE IF q % 2 = 0 THEN 10 * q ELSE 10 * (q + 1)

\* obj, variant_d, parents and us_count are set up; the level-order loop starts
SerializeBegin ==
    /\ Running("annotated")
    /\ nodes' = EmptyDict
    /\ edges' = << >>
    /\ variant_d' = EmptyDict
    /\ parents' = get_parents(clades)
    /\ us_count' = 0
    /\ queue' = LevelOrder(clades, << root >>)
    /\ pc' = "serialize"
    /\ UNCHANGED << clades, name, branch_length, confidence, labels, minlen,
                    label_dict, run, err, clades0, clades1, name1 >>

\* lines 141-154 for the clade at the head of the loop
Record(node) ==
    /\ nodes' = Update(nodes, Variant(labels[node], us_count),
                       IF labels[node] # << >> THEN Intermed(labels[node])
                       ELSE << >>)
    /\ us_count' = IF labels[node] # << >> THEN us_count
                   ELSE NextCount(us_count)
    /\ variant_d' = Update(variant_d, node, Variant(labels[node], us_count))

\* the edge of a clade can be built
EdgeOk(node) ==
    /\ node \in DOMAIN parents
    /\ parents[node] \in DOMAIN variant_d \cup {node}
    /\ branch_length[node] # NoneLen

\* one clade is recorded and, unless it is the root, its edge appended
SerializeVisit ==
    /\ Running("serialize") /\ queue # << >>
    /\ LET node == Head(queue) IN
       /\ node = root \/ EdgeOk(node)
       /\ Record(node)
       /\ edges' = IF node = root THEN edges
                   ELSE Append(edges, << variant_d'[parents[node]],
                                         Variant(labels[node], us_count),
                                         Round2(branch_length[node]),
                                         confidence[node] >>)
       /\ queue' = Tail(queue)
       /\ UNCHANGED << clades, name, branch_length, confidence, labels,
                       minlen, label_dict, parents, pc, run, err, clades0,
                       clades1, name1 >>

\* the clade is recorded, then building its edge raises: a missing parent
\* entry is a KeyError, round(None, 2) a TypeError
SerializeError ==
    /\ Running("serialize") /\ queue # << >>
    /\ LET node == Head(queue) IN
       /\ node # root /\ ~EdgeOk(node)
       /\ Record(node)
       /\ err' = IF /\ node \in DOMAIN parents
                    /\ parents[node] \in DOMAIN variant_d \cup {node}
                 THEN "TypeError" ELSE "KeyError"
       /\ UNCHANGED << clades, name, branch_length, confidence, labels,
                       minlen, label_dict, parents, queue, pc, run, edges,
                       clades0, clades1, name1 >>

\* return obj
SerializeReturn ==
    /\ Running("serialize") /\ queue = << >>
    /\ pc' = "serialized"
    /\ UNCHANGED << clades, name, branch_length, confidence, labels, minlen,
                    label_dict, parents, queue, run, err, nodes, edges,
                    variant_d, us_count, clades0, clades1, name1 >>

----------------------------------------------------------------------------

Next ==
    \/ CollapseBegin
    \/ TipTypeError
    \/ TipRetain
    \/ TipKeyError
    \/ TipRemove
    \/ Pass1Done
    \/ NodeSkip
    \/ NodeSplice
    \/ CollapseReturn
    \/ CollapseAgain
    \/ AnnotateBegin
    \/ AnnotateTip
    \/ AnnotateTipsDone
    \/ AnnotateNode
    \/ AnnotateReturn
    \/ SerializeBegin
    \/ SerializeVisit
    \/ SerializeError
    \/ SerializeReturn

Spec == Init /\ [][Next]_vars

----------------------------------------------------------------------------
(* Vocabulary of the properties *)

\* the clades of the tree with the child lists cl
InTree(cl) == Range(Preorder(cl, << root >>))

\* the clade of the tree whose child list holds n
ParentIn(cl, n) == CHOOSE p \in InTree(cl) : n \in Range(cl[p])

\* the tips of the input tree, in preorder
Tips0 == get_terminals(clades0)

\* a defined length at or below the threshold
Short(n) == branch_length[n] # NoneLen /\ branch_length[n] <= minlen

RECURSIVE SurvivingAncestor(_)
\* the nearest ancestor of n in the input tree that is still in the tree
SurvivingAncestor(n) ==
    LET p == ParentIn(clades0, n)
    IN  IF p \in InTree(clades) THEN p ELSE SurvivingAncestor(p)

\* the labels attached to the clades of the tree, and those of the input tips
Attached == Concat(labels, Preorder(clades, << root >>))
Supplied == Concat(label_dict, Tips0)

IsExample ==
    /\ clades0 = CladesOf(7, ExamplePar)
    /\ branch_length = ExampleLen
    /\ minlen = DefaultMinLen

----------------------------------------------------------------------------
(* C1: when collapse_polytomies has returned, every clade of the tree other
   than the root has an undefined branch length or one greater than minlen,
   also a clade that was internal and lost all its children in Pass 1. *)
C1_NoShortSurvivor ==
    (pc = "collapsed" /\ err = "none") =>
        \A n \in InTree(clades) \ {root} : ~Short(n)

(* C2: a second collapse_polytomies with the same minlen on the tree the
   first one returned removes no clade, reparents none and changes no
   name. *)
C2_Idempotent ==
    run = 2 =>
        /\ InTree(clades) = InTree(clades1)
        /\ \A n \in InTree(clades1) :
              clades[n] = clades1[n] /\ name[n] = name1[n]

(* C3: when annotate_tree has returned, every label occurs in the labels
   lists of the clades of the tree as many times as in the label-table
   lists of the tips of the input tree. *)
C3_LabelConservation ==
    (pc = "annotated" /\ err = "none") =>
        \A l \in Range(Attached) \cup Range(Supplied) :
            Count(l, Attached) = Count(l, Supplied)

\* annotate_tree has returned a tree that lost a tip and an internal clade
C3_Witness ==
    /\ pc = "annotated" /\ err = "none"
    /\ \E t, x \in DOMAIN clades0 \ InTree(clades) :
          clades0[t] = << >> /\ clades0[x] # << >>
    /\ \E n \in InTree(clades) : Len(name[n]) > 1

(* C4: Pass 1 completes on every tip that has a parent and removes exactly
   the input tips whose branch length is not greater than minlen, an
   undefined length counting as zero: such a tip leaves its parent's child
   list and its name is folded into the parent's name; a longer tip stays
   where it was, with its own name. *)
C4_TipPruning ==
    /\ (run = 1 /\ pc = "pass1" /\ queue # << >> /\ Head(queue) # root)
          => err = "none"
    /\ (run = 1 /\ pc = "pass2" /\ queue = get_nonterminals(clades)) =>
          \A t \in Range(Tips0) \ {root} :
             LET p == ParentIn(clades0, t) IN
             IF branch_length[t] = NoneLen \/ branch_length[t] <= minlen
             THEN t \notin Range(clades[p]) /\ t \in Range(name[p])
             ELSE t \in Range(clades[p]) /\ name[t] = << t >>
                  /\ t \notin Range(name[p])

(* C5: the root is never removed: no child list ever holds it and the
   Pass 2 step that visits it changes nothing, whatever its branch length;
   when serialize_tree has returned, the node map has an entry under the
   root's variant identifier and no edge has that identifier as its child. *)
C5_RootState ==
    /\ \A n \in DOMAIN clades : root \notin Range(clades[n])
    /\ (pc = "serialized" /\ err = "none") =>
          /\ root \in DOMAIN variant_d
          /\ variant_d[root] \in DOMAIN nodes
          /\ \A i \in DOMAIN edges : edges[i][2] # variant_d[root]

C5_RootStep ==
    (pc = "pass2" /\ err = "none" /\ queue # << >> /\ Head(queue) = root) =>
        (clades' = clades /\ name' = name /\ err' = "none")

C5_RootInvariance == []C5_RootState /\ [][C5_RootStep]_vars

\* a tree whose root is short has been serialized with two unsampled clades
C5_Witness ==
    /\ pc = "serialized" /\ err = "none"
    /\ Short(root)
    /\ us_count >= 2
    /\ Len(edges) >= 2

(* C6: collapse_polytomies never raises at the root: whatever the root's
   branch length, and also when the root is a terminal clade, the call
   completes and leaves the root in place. *)
C6_RootNeverRaises ==
    ~( /\ run = 1
       /\ pc \in { "pass1", "pass2" }
       /\ err # "none"
       /\ queue # << >> /\ Head(queue) = root )

(* C7, as stated: on the example tree with minlen 0.5 the output has three
   node-map entries and two edges, the clade carrying A's labels is the
   parent of B, B is a clade of its own, and the root carries the labels of
   C and D. *)
C7_AsStated ==
    (IsExample /\ pc = "serialized") =>
        /\ err = "none"
        /\ Cardinality(DOMAIN nodes) = 3
        /\ Len(edges) = 2
        /\ \E n \in InTree(clades) :
              /\ Range(labels[n]) = Range(label_dict[4])
              /\ 5 \in Range(clades[n])
        /\ Range(labels[5]) = Range(label_dict[5])
        /\ Range(labels[root]) = Range(label_dict[6]) \cup Range(label_dict[7])

(* C7, amended: on the example tree with minlen 0.5 tip A is folded into
   its parent, which is spliced into the root; C and D are folded into the
   (C,D) clade, which stays as a tip under the root; B stays.  The output
   has three node-map entries (the root with A's samples, the (C,D) clade
   with the samples of C and D, and B) and two edges, root to (C,D) and
   root to B. *)
C7_EndToEnd ==
    (IsExample /\ pc = "serialized") =>
        /\ err = "none"
        /\ InTree(clades) = { 1, 3, 5 }
        /\ clades[1] = << 3, 5 >> /\ clades[3] = << >> /\ clades[5] = << >>
        /\ Range(labels[1]) = Range(label_dict[4])
        /\ Range(labels[3]) = Range(label_dict[6]) \cup Range(label_dict[7])
        /\ Range(labels[5]) = Range(label_dict[5])
        /\ DOMAIN nodes = { << "acc", 7 >>, << "acc", 13 >>, << "acc", 9 >> }
        /\ nodes[<< "acc", 7 >>] = << Reverse(Lab(4, 1)), Reverse(Lab(4, 2)) >>
        /\ nodes[<< "acc", 9 >>] = << Reverse(Lab(5, 1)), Reverse(Lab(5, 2)) >>
        /\ nodes[<< "acc", 13 >>] =
              << Reverse(Lab(7, 1)), Reverse(Lab(6, 1)),
                 Reverse(Lab(7, 2)), Reverse(Lab(6, 2)) >>
        /\ edges = << << << "acc", 7 >>, << "acc", 13 >>, 50, NoneConf >>,
                      << << "acc", 7 >>, << "acc", 9 >>, 600, NoneConf >> >>

\* the example tree has been serialized
C7_Witness ==
    /\ IsExample /\ pc = "serialized" /\ err = "none"
    /\ Len(edges) = 2

\* the list s with the elements at i and j exchanged
Exchange(s, i, j) ==
    [ k \in 1..Len(s) |-> IF k = i THEN s[j] ELSE IF k = j THEN s[i] ELSE s[k] ]

(* C8: for every clade serialize_tree has recorded with a non-empty labels
   list, the sample payload under its variant identifier holds exactly the
   reversed field lists of its labels in strictly ascending order, the
   identifier is the field at index 3 of the first of them, and exchanging
   any two labels of the list gives the same identifier and payload. *)
C8_VariantDeterminism ==
    (pc \in { "serialize", "serialized" }) =>
        \A n \in DOMAIN variant_d :
            labels[n] # << >> =>
                LET v == variant_d[n]
                    payload == nodes[v]
                IN  /\ Len(payload) = Len(labels[n])
                    /\ Range(payload) =
                          { Reverse(labels[n][i]) : i \in DOMAIN labels[n] }
                    /\ \A i, j \in DOMAIN payload :
                          i < j => LexLess(payload[i], payload[j])
                    /\ v = << "acc", payload[1][4] >>
                    /\ \A i, j \in DOMAIN labels[n] :
                          /\ Variant(Exchange(labels[n], i, j), us_count) = v
                          /\ Intermed(Exchange(labels[n], i, j)) = payload

\* a clade with the labels B|acc2|r|c|2021-02-01, A|acc1|r|c|2021-01-01, in
\* this order, was recorded as acc1 with the 2021-01-01 sample first
C8_Witness ==
    /\ pc = "serialized" /\ err = "none"
    /\ \E n \in DOMAIN variant_d :
          /\ labels[n] = << << 2, 2, 1, 1, 20210201 >>,
                            << 1, 1, 1, 1, 20210101 >> >>
          /\ variant_d[n] = << "acc", 1 >>
          /\ nodes[<< "acc", 1 >>] = << << 20210101, 1, 1, 1, 1 >>,
                                        << 20210201, 1, 1, 2, 2 >> >>

\* what a Pass 2 step that splices out the clade at the head of the loop does
SpliceEffect ==
    LET node == Head(queue)
        parent == ParentIn(clades, node)
    IN  /\ err' = "none"
        /\ node \notin Range(clades'[parent])
        /\ \A c \in Range(clades[node]) :
              c \in Range(clades'[parent]) /\ parents'[c] = parent
        /\ Range(clades'[parent]) =
              (Range(clades[parent]) \ {node}) \cup Range(clades[node])
        /\ \A m \in DOMAIN clades \ {parent} : clades'[m] = clades[m]
        /\ name' = IF name[node] = NoneName THEN name
                   ELSE [ name EXCEPT ![parent] =
                            IF @ = NoneName THEN name[node]
                            ELSE @ \o name[node] ]

\* the internal clades of the tree that have an undefined branch length
Unmeasured ==
    { n \in InTree(clades) :
        ~is_terminal(clades, n) /\ branch_length[n] = NoneLen }

\* a Pass 2 step of the first collapse
Pass2Step == run = 1 /\ pc = "pass2" /\ err = "none" /\ queue # << >>

C9_Splices ==
    (Pass2Step /\ Head(queue) # root /\ Short(Head(queue))) => SpliceEffect

\* the step that visits an internal clade of undefined length changes
\* nothing, and no Pass 2 step takes such a clade out of the tree
C9_UnmeasuredSkipped ==
    Pass2Step =>
        /\ Head(queue) \in Unmeasured =>
              (clades' = clades /\ name' = name /\ parents' = parents)
        /\ \A n \in Unmeasured :
              /\ n \in InTree(clades')
              /\ ~is_terminal(clades', n)
              /\ n # root =>
                    LET p == ParentIn(clades, n)
                        q == ParentIn(clades', n)
                    IN  \/ q = p
                        \/ /\ p = Head(queue) /\ p # root /\ Short(p)
                           /\ q = ParentIn(clades, p)

\* after the collapse no short internal clade is left and every other clade
\* hangs under its nearest surviving ancestor of the input tree
C9_Result ==
    (run = 1 /\ pc = "collapsed") =>
        \A n \in InTree(clades) \ {root} :
            /\ ~is_terminal(clades, n) => ~Short(n)
            /\ ParentIn(clades, n) = SurvivingAncestor(n)

(* C9: every Pass 2 step on a short internal clade other than the root
   splices it out: it leaves its parent's child list, its children join
   that list and get the parent as their parent-index entry, and its name,
   if it has one, is joined onto the parent's.  An internal clade of
   undefined length is skipped: the step that visits it changes nothing and
   no step takes it out of the tree; it is moved only as the child of a
   spliced clade, to that clade's parent.  In the result no short internal
   clade is left and every clade hangs under its nearest surviving ancestor
   of the input tree, also below a chain of short internal clades. *)
C9_InternalCollapse ==
    /\ [][C9_Splices]_vars
    /\ [][C9_UnmeasuredSkipped]_vars
    /\ []C9_Result

\* the collapse spliced out a short internal clade and its short internal
\* child, and a clade of theirs survives
C9_Witness ==
    /\ run = 1 /\ pc = "collapsed" /\ err = "none"
    /\ \E x, y \in DOMAIN clades0 \ InTree(clades) :
          /\ y \in Range(clades0[x])
          /\ clades0[y] # << >>
          /\ \E c \in Range(clades0[y]) : c \in Range(clades[root])

(* C10: serialize_tree never fails on a clade of the collapsed tree, every
   clade's parent has its variant identifier before the clade is visited,
   and when it has returned every clade other than the root has exactly one
   edge record, from its parent's identifier to its own. *)
C10_EdgePerNode ==
    /\ pc = "serialize" => err = "none"
    /\ pc = "serialize" =>
          \A i \in DOMAIN queue :
              queue[i] # root =>
                  \/ ParentIn(clades, queue[i]) \in DOMAIN variant_d
                  \/ \E j \in 1..(i - 1) :
                        queue[j] = ParentIn(clades, queue[i])
    /\ pc = "serialized" =>
          \A n \in InTree(clades) \ {root} :
              /\ Cardinality({ i \in DOMAIN edges :
                                 edges[i][2] = variant_d[n] }) = 1
              /\ \A i \in DOMAIN edges :
                    edges[i][2] = variant_d[n] =>
                        edges[i][1] = variant_d[ParentIn(clades, n)]

\* the tree is rooted and acyclic: the traversal from the root meets no clade
\* twice, no child list names a clade twice, and every clade other than the
\* root is in the child list of exactly one clade of the tree
RootedTree ==
    LET order == Preorder(clades, << root >>)
        tree == Range(order)
    IN  /\ Cardinality(tree) = Len(order)
        /\ \A p \in tree :
              /\ Cardinality(Range(clades[p])) = Len(clades[p])
              /\ root \notin Range(clades[p])
        /\ \A n \in tree \ {root} :
              Cardinality({ p \in tree : n \in Range(clades[p]) }) = 1

\* the parent index names, for every clade of the tree but the root, the
\* clade of the tree whose child list holds it
ParentIndexCurrent ==
    LET tree == InTree(clades) IN
    \A n \in tree \ {root} :
        /\ n \in DOMAIN parents
        /\ parents[n] \in tree
        /\ n \in Range(clades[parents[n]])

\* a step of either pass that removes the clade at the head of the loop takes
\* it out of the child list of its current parent in the tree
RemovalAtCurrentParent ==
    (pc \in { "pass1", "pass2" } /\ err = "none" /\ clades' # clades) =>
        LET node == Head(queue)
            parent == ParentIn(clades, node)
        IN  /\ node \in InTree(clades) \ {root}
            /\ parents[node] = parent
            /\ node \notin Range(clades'[parent])
            /\ node \notin InTree(clades')
            /\ InTree(clades') = InTree(clades) \ {node}

(* C11: in every state of both passes of collapse_polytomies, hence after
   every single removal or splice, the structure is a rooted tree (no clade
   met twice from the root, no clade twice in a child list, every clade but
   the root in exactly one child list) and the parent index entry of every
   clade of the tree names the clade whose child list holds it; every
   removal acts on the clade's current parent and never raises for a clade
   missing from its parent's child list. *)
C11_TreeAndIndex ==
    /\ [](pc \in { "pass1", "pass2" } =>
            RootedTree /\ ParentIndexCurrent /\ err # "ValueError")
    /\ [][RemovalAtCurrentParent]_vars

\* Pass 2 has spliced out an internal clade and now visits a short internal
\* child of it, whose parent index entry is no longer its input parent
C11_Witness ==
    /\ pc = "pass2" /\ err = "none" /\ queue # << >>
    /\ Head(queue) # root /\ Short(Head(queue))
    /\ ParentIn(clades0, Head(queue)) \notin InTree(clades)
    /\ parents[Head(queue)] = ParentIn(clades, Head(queue))

====
